---------------------------- MODULE Spec2Model ----------------------------
(***************************************************************************)
(* Command registry, typed-argument parsing and proxy dispatch of          *)
(* src/src/bot_commands.py.                                                *)
(*                                                                         *)
(* A Python str that is split into tokens (a command line, 'rest') is a    *)
(* sequence of pieces: a piece is one whitespace character or a word (a    *)
(* non-empty string without whitespace).  Texts that are only compared     *)
(* (replies, usage, names) are TLA+ strings.                               *)
(***************************************************************************)
EXTENDS Integers, Sequences, FiniteSets, TLC

VARIABLES
    _commands,   \* the module-level dict: sequence of [key, obj] in insertion order
    heap,        \* the _Command objects, by reference
    calls,       \* number of _add_command / _alias calls made
    lastCall,    \* the last _add_command / _alias call: [op, name, alias]
    loadError,   \* exception raised by that call ("" when none)
    author,      \* identity of the run_command call in flight
    message,     \* its line
    tape,        \* answers the service has given to that call so far
    result       \* where the call stands: pending on the service, returned, raised

vars == <<_commands, heap, calls, lastCall, loadError, author, message, tape, result>>

----------------------------------------------------------------------------
(* str.split(), str.join()                                                 *)

WS == {" ", "\t", "\n"}

RECURSIVE SplitAcc(_, _, _)
SplitAcc(s, cur, acc) ==
    IF s = <<>>
    THEN IF cur = "" THEN acc ELSE Append(acc, cur)
    ELSE IF Head(s) \in WS
         THEN SplitAcc(Tail(s), "", IF cur = "" THEN acc ELSE Append(acc, cur))
         ELSE SplitAcc(Tail(s), cur \o Head(s), acc)

\* message.split(): the maximal whitespace-free runs
split(s) == SplitAcc(s, "", <<>>)

RECURSIVE join(_, _)
\* sep.join(words), as pieces
join(sep, words) ==
    IF words = <<>> THEN <<>>
    ELSE IF Len(words) = 1 THEN <<words[1]>>
    ELSE <<words[1]>> \o sep \o join(sep, Tail(words))

RECURSIVE Flat(_)
\* the pieces written out as one text
Flat(s) == IF s = <<>> THEN "" ELSE Head(s) \o Flat(Tail(s))

RECURSIVE JoinStr(_, _)
\* sep.join(texts), as one text
JoinStr(sep, texts) ==
    IF texts = <<>> THEN ""
    ELSE IF Len(texts) = 1 THEN texts[1]
    ELSE texts[1] \o sep \o JoinStr(sep, Tail(texts))

SubSeqFrom(s, i) == IF i > Len(s) THEN <<>> ELSE SubSeq(s, i, Len(s))

Min(a, b) == IF a < b THEN a ELSE b

----------------------------------------------------------------------------
(* Typed values                                                            *)

Value(ty, n, d, s) == [ty |-> ty, n |-> n, d |-> d, s |-> s]
StrVal(s)       == Value("str", 0, 1, s)
IntVal(n)       == Value("int", n, 1, "")
FractionVal(n, d) == Value("Fraction", n, d, "")
AccountIdVal(s) == Value("AccountId", 0, 1, s)
AuthVal(s)      == Value("Authorization", 0, 1, s)
NoneVal         == Value("NoneType", 0, 1, "")

\* str(v), as an f-string writes it
StrOf(v) ==
    CASE v.ty = "int" -> ToString(v.n)
      [] v.ty = "Fraction" ->
            IF v.d = 1 THEN ToString(v.n) ELSE ToString(v.n) \o "/" \o ToString(v.d)
      [] v.ty = "NoneType" -> "None"
      [] v.ty = "Authorization" -> "Authorization." \o v.s
      [] OTHER -> v.s

\* the decimal integer literals among the tokens, with int()'s value
IntLiteral ==
    [t \in {"0", "1", "2", "5", "-1", "-2"} |->
        CASE t = "0" -> 0 [] t = "1" -> 1 [] t = "2" -> 2 [] t = "5" -> 5
          [] t = "-1" -> 0 - 1 [] t = "-2" -> 0 - 2]

\* the numerator/denominator literals among the tokens
RatioLiteral ==
    [t \in {"1/2", "1/0"} |-> IF t = "1/2" THEN <<1, 2>> ELSE <<1, 0>>]

\* s.lower() on the tokens
lower(s) ==
    CASE s = "Admin" -> "admin" [] s = "ADMIN" -> "admin"
      [] s = "Citizen" -> "citizen" [] OTHER -> s

\* accounting.Authorization's member names, lower-cased
AuthorizationNames == {"citizen", "officer", "admin", "developer"}

\* tokens accounting.parse_account_id rejects
UnparseableIds == {"<@"}

Accepted(v) == [exc |-> "", msg |-> "", val |-> v]
Rejected(exc, msg) == [exc |-> exc, msg |-> msg, val |-> NoneVal]

int(t) ==
    IF t \in DOMAIN IntLiteral THEN Accepted(IntVal(IntLiteral[t]))
    ELSE Rejected("ValueError", "invalid literal for int() with base 10: '" \o t \o "'")

Fraction(t) ==
    IF t \in DOMAIN IntLiteral THEN Accepted(FractionVal(IntLiteral[t], 1))
    ELSE IF t \in DOMAIN RatioLiteral
    THEN IF RatioLiteral[t][2] = 0
         THEN Rejected("ZeroDivisionError",
                       "Fraction(" \o ToString(RatioLiteral[t][1]) \o ", 0)")
         ELSE Accepted(FractionVal(RatioLiteral[t][1], RatioLiteral[t][2]))
    ELSE Rejected("ValueError", "Invalid literal for Fraction: '" \o t \o "'")

parse_account_id(t) ==
    IF t \in UnparseableIds
    THEN Rejected("ValueError", "Invalid account ID: '" \o t \o "'")
    ELSE Accepted(AccountIdVal(t))

\* lambda x: None if int(x) < 0 else int(x)
LimitRule(t) ==
    IF int(t).exc # "" THEN int(t)
    ELSE IF int(t).val.n < 0 THEN Accepted(NoneVal) ELSE int(t)

\* lambda s: {a.name.lower(): a for a in Authorization}[s.lower()]
LevelRule(t) ==
    IF lower(t) \in AuthorizationNames THEN Accepted(AuthVal(lower(t)))
    ELSE Rejected("KeyError", "'" \o lower(t) \o "'")

\* arg[0](input): the callable stored for a parameter, applied to its token
Coerce(rule, t) ==
    CASE rule = "str" -> Accepted(StrVal(t))
      [] rule = "int" -> int(t)
      [] rule = "Fraction" -> Fraction(t)
      [] rule = "parse_account_id" -> parse_account_id(t)
      [] rule = "limit" -> LimitRule(t)
      [] rule = "level" -> LevelRule(t)

----------------------------------------------------------------------------
(* The registration statements of the module, in source order              *)

P(name, type, help) == [name |-> name, type |-> type, help |-> help]

Add(name, args, func, description) ==
    [op |-> "add", name |-> name, args |-> args, func |-> func,
     description |-> description, alias |-> ""]

AliasStmt(name, alias) ==
    [op |-> "alias", name |-> name, args |-> <<>>, func |-> "",
     description |-> "", alias |-> alias]

Script ==
  <<
    Add("name",
        <<>>,
        "_name", "Produces your real or hypothetical account ID"),
    Add("transfer",
        <<P("amount", "Fraction", "Amount to transfer"), P("destination", "parse_account_id", "Beneficiary to transfer to")>>,
        "_transfer", "Transfers an amount of money from your account to a beneficiary's"),
    Add("admin-transfer",
        <<P("amount", "Fraction", "Amount to transfer"), P("source", "parse_account_id", "Account from which the amount is sent"), P("destination", "parse_account_id", "Beneficiary to transfer to")>>,
        "_adm_transfer", "Transfers an amount of money from a source account to a beneficiary's"),
    Add("open",
        <<>>,
        "_open_account", "Opens a new account"),
    Add("toggle-public",
        <<>>,
        "_set_public", "toggle whether or not your account is public"),
    Add("leader-board",
        <<P("limit", "limit", "the maximum number of accounts to display -1 for no limit")>>,
        "_leader_board", "view a list of all public accounts sorted by balance"),
    AliasStmt("leader-board", "lb"),
    Add("admin-open",
        <<P("account", "parse_account_id", "Account to open")>>,
        "_adm_open_account", "Open a new account for someone else"),
    Add("admin-freeze",
        <<P("account", "parse_account_id", "Account to freeze")>>,
        "_freeze_account", "Freeze an account"),
    Add("admin-unfreeze",
        <<P("account", "parse_account_id", "Account to unfreeze")>>,
        "_unfreeze_account", "Unfreeze an account"),
    Add("balance",
        <<>>,
        "_balance", "Print account balance"),
    AliasStmt("balance", "bal"),
    Add("full-balance",
        <<>>,
        "_full_balance", "Print un-rounded balance"),
    AliasStmt("full-balance", "full-bal"),
    Add("money-supply",
        <<>>,
        "_money_supply", "Print the total money supply"),
    Add("add-public-key",
        <<P("key", "str", "Key to use")>>,
        "_add_public_key", "Adds a public key to your account"),
    Add("list",
        <<>>,
        "_list_accounts", "List all accounts"),
    AliasStmt("list", "ls"),
    Add("print-money",
        <<P("amount", "Fraction", "Amount to print"), P("account", "parse_account_id", "Account to print to")>>,
        "_print_money", "Print amount of money to account"),
    Add("remove-funds",
        <<P("amount", "Fraction", "Amount to delete"), P("account", "parse_account_id", "Account to print to")>>,
        "_remove_funds", "Deletes fund from an account"),
    Add("create-recurring-transfer",
        <<P("amount", "Fraction", "Amount to transfer"), P("destination", "parse_account_id", "Beneficiary to transfer to"), P("tick_count", "int", "Interval to transfer by, in ticks")>>,
        "_create_recurring_transfer", "Create a transfer which reccurs according to an interval"),
    Add("admin-create-recurring-transfer",
        <<P("amount", "Fraction", "Amount to transfer"), P("source", "Fraction", "Source to transfer from"), P("destination", "parse_account_id", "Beneficiary to transfer to"), P("tick_count", "int", "Interval to transfer by, in ticks")>>,
        "_create_recurring_transfer", "Create a transfer from someone else which reccurs according to an interval"),
    Add("proxy",
        <<P("account", "parse_account_id", "Account to proxy"), P("command", "str", "Command to run")>>,
        "_proxy", "Proxy another account"),
    Add("proxy-dsa",
        <<P("account", "parse_account_id", "Account to proxy"), P("signature", "str", "ECDSA signature of command to run"), P("command", "str", "Command to run")>>,
        "_proxy_dsa", "Proxy another account using ECDSA verification"),
    Add("request-alias",
        <<P("account", "parse_account_id", "Account to alias")>>,
        "_request_alias", "Request an alias code"),
    Add("add-alias",
        <<P("account", "parse_account_id", "Account to alias"), P("request_code", "str", "Code generated on the other account")>>,
        "_add_alias", "Add another account as an alias"),
    Add("admin-add-proxy",
        <<P("proxy", "parse_account_id", "Account that will be able to act as a proxy for 'account'"), P("account", "parse_account_id", "Account that 'proxy' will be able to access")>>,
        "_admin_add_proxy", "Let an account proxy another account"),
    Add("admin-remove-proxy",
        <<P("proxy", "parse_account_id", "Account that can currently act as a proxy for 'account'"), P("account", "parse_account_id", "Account that 'proxy' will no longer be able to access")>>,
        "_admin_remove_proxy", "Unlet an account proxy another account"),
    Add("admin-delete-account",
        <<P("account", "parse_account_id", "Account to delete")>>,
        "_delete_account", "Delete an account"),
    Add("add-tax-bracket",
        <<P("start", "Fraction", "Lower bound of the tax bracket"), P("end", "Fraction", "Upper bound of the tax bracker (-1 for infinity)"), P("rate", "Fraction", "Tax rate"), P("name", "str", "Name of the tax bracket")>>,
        "_add_tax_bracket", "Add a tax bracket"),
    Add("remove-tax-bracket",
        <<P("name", "str", "Name of the bracket to delete")>>,
        "_remove_tax_bracket", "Removes a tax bracker"),
    Add("force-tax",
        <<>>,
        "_force_tax", "Manually apply tax brakcets"),
    Add("auto-tax",
        <<>>,
        "_toggle_auto_tax", "Toggle automatic taxation"),
    Add("force-ticks",
        <<P("ticks", "int", "Amount of ticks to force")>>,
        "_force_ticks", "Forcibly run ticks"),
    Add("shoot",
        <<P("victim", "parse_account_id", "person to shoot")>>,
        "_shoot_account", "shoots Account"),
    Add("set-gun-price",
        <<P("price", "Fraction", "price for new guns")>>,
        "_set_gun_price", "Sets the price of a gun"),
    Add("set-vest-price",
        <<P("price", "Fraction", "price for new vests")>>,
        "_set_vest_price", "sets the price of a vest"),
    Add("buy-gun",
        <<>>,
        "_buy_gun", "buys a gun"),
    Add("buy-vest",
        <<>>,
        "_buy_vest", "buys a vest"),
    Add("gun-balance",
        <<>>,
        "_gun_balance", "displays how many guns you own"),
    AliasStmt("gun-balance", "gun-bal"),
    Add("vest-balance",
        <<>>,
        "_vest_balance", "displays whether or not you have a vest"),
    AliasStmt("vest-balance", "vest-bal"),
    Add("buy-farm",
        <<P("farm-type", "str", "Type of the farm you want to buy")>>,
        "_buy_farm", "Buys a farm"),
    Add("set-farm-type-cost",
        <<P("farm-type", "str", "Type of the farm you want to change the cost of"), P("new-cost", "Fraction", "The new cost of the farm")>>,
        "_set_farm_type_cost", "Sets the cost of a type of farm"),
    Add("set-farm-type-duration",
        <<P("farm-type", "str", "Type of farm you want to change the duration of"), P("new-duration", "int", "New duration for that Farm Type")>>,
        "_set_farm_type_duration", "Sets the duration of a given farm type"),
    Add("set-farm-type-returns",
        <<P("farm-type", "str", "Type of the farm you want to change the returns of"), P("new-returns", "Fraction", "The new returns")>>,
        "_set_farm_type_returns", "Sets the returns per day for a given farm type"),
    Add("farm-balance",
        <<>>,
        "_farm_balance", "displays your farms"),
    Add("authorize",
        <<P("account", "parse_account_id", "Account to authorize"), P("level", "level", "Authorization level")>>,
        "_authorize", "Authorize a command"),
    AliasStmt("authorize", "authorise"),
    Add("help",
        <<>>,
        "_help", "List all commands")
  >>

\* the registered names in the order sorted() gives them (by code point)
SortedKeys ==
    << "add-alias", "add-public-key", "add-tax-bracket", "admin-add-proxy", "admin-create-recurring-transfer", "admin-delete-account", "admin-freeze", "admin-open", "admin-remove-proxy", "admin-transfer", "admin-unfreeze", "authorise", "authorize", "auto-tax", "bal", "balance", "buy-farm", "buy-gun", "buy-vest", "create-recurring-transfer", "farm-balance", "force-tax", "force-ticks", "full-bal", "full-balance", "gun-bal", "gun-balance", "help", "lb", "leader-board", "list", "ls", "money-supply", "name", "open", "print-money", "proxy", "proxy-dsa", "remove-funds", "remove-tax-bracket", "request-alias", "set-farm-type-cost", "set-farm-type-duration", "set-farm-type-returns", "set-gun-price", "set-vest-price", "shoot", "toggle-public", "transfer", "vest-bal", "vest-balance" >>

----------------------------------------------------------------------------
(* _Command and the registry dict                                          *)

_Command(name, args, func, description) ==
    [name |-> name, args |-> args, func |-> func, description |-> description]

\* ' '.join(self.args.keys())
ArgNames(args) == [i \in DOMAIN args |-> args[i].name]

\* _Command.usage
usage(cmd) ==
    JoinStr("\n",
        << "Usage: " \o cmd.name \o " " \o JoinStr(" ", ArgNames(cmd.args)),
           cmd.description \o "",
           "Options: ",
           JoinStr("\n", [i \in DOMAIN cmd.args |->
                            "    " \o cmd.args[i].name \o " -- " \o cmd.args[i].help]) >>)

\* _Command.copy: a new object with the same four members
copy(cmd) == _Command(cmd.name, cmd.args, cmd.func, cmd.description)

Keys(d) == {d[i].key : i \in DOMAIN d}

IndexOf(d, k) == CHOOSE i \in DOMAIN d : d[i].key = k

\* d[k], for k in d
Get(d, k) == d[IndexOf(d, k)].obj

\* d.update({k: ref}): an existing key keeps its place
Update(d, k, ref) ==
    IF k \in Keys(d) THEN [d EXCEPT ![IndexOf(d, k)].obj = ref]
    ELSE Append(d, [key |-> k, obj |-> ref])

Registry(d, h, exc) == [commands |-> d, heap |-> h, exc |-> exc]

\* _add_command
_add_command(d, h, name, args, func, description) ==
    Registry(Update(d, name, Len(h) + 1),
             Append(h, _Command(name, args, func, description)),
             "")

\* _alias without the copy: the alias is the original object, renamed
AliasShared(d, h, name, alias) ==
    IF name \notin Keys(d) THEN Registry(d, h, "KeyError")
    ELSE Registry(Update(d, alias, Get(d, name)),
                  [h EXCEPT ![Get(d, name)].name = alias],
                  "")

\* _alias
_alias(d, h, name, alias) ==
    IF name \notin Keys(d) THEN Registry(d, h, "KeyError")
    ELSE Registry(Update(d, alias, Len(h) + 1),
                  Append(h, [copy(h[Get(d, name)]) EXCEPT !.name = alias]),
                  "")

\* {k: v for k, v in sorted(_commands.items(), key=lambda x: x[0])}
SortByKey(d) ==
    LET present == SelectSeq(SortedKeys, LAMBDA k : k \in Keys(d))
    IN  [i \in DOMAIN present |-> [key |-> present[i], obj |-> Get(d, present[i])]]

----------------------------------------------------------------------------
(* The accounting service, as run_command sees it: each call into          *)
(* `commands` either returns a value or raises.  A tape holds the answers  *)
(* the service gives to the successive calls of one run_command.           *)

DomainErrors ==
    {"ValueCommandException", "AccountCommandException",
     "UnauthorizedCommandException", "ProcessCommandException"}

\* message texts an exception of the service may carry
ErrorTexts == {"not allowed here", "try another"}

Account(ids, auth, n, d) == [ids |-> ids, auth |-> auth, n |-> n, d |-> d]

Answer(kind, msg, flag, val, accounts) ==
    [kind |-> kind, msg |-> msg, flag |-> flag, val |-> val, accounts |-> accounts]

Returns(flag, val, accounts) == Answer("return", "", flag, val, accounts)
Raises(kind, msg) == Answer(kind, msg, FALSE, NoneVal, <<>>)

\* account lists a listing call may return
AccountLists ==
    { <<>>,
      << Account(<<"bob">>, "CITIZEN", 5, 1), Account(<<"alice", "al">>, "ADMIN", 85, 2),
         Account(<<"carol">>, "CITIZEN", 5, 1) >> }

BoolOps == {"toggle_public", "auto_tax", "shoot_account", "verify_proxy", "vest_balance"}
NumberOps == {"balance", "get_money_supply", "gun_balance"}
ListOps == {"list_accounts", "list_public_accounts"}

\* what a call of `op` may come back with
AnswersFor(op) ==
    (CASE op \in BoolOps -> {Returns(b, NoneVal, <<>>) : b \in BOOLEAN}
       [] op \in NumberOps -> {Returns(FALSE, FractionVal(85, 2), <<>>)}
       [] op \in ListOps -> {Returns(FALSE, NoneVal, l) : l \in AccountLists}
       [] op = "get_farm_balance" ->
            {Returns(FALSE, NoneVal, l) :
                l \in {<<>>, <<Account(<<"wheat">>, "", 0, 1), Account(<<"corn">>, "", 0, 1)>>}}
       [] op = "name" -> {Returns(FALSE, AccountIdVal("admin"), <<>>)}
       [] op \in {"request_alias", "create_recurring_transfer"} ->
            {Returns(FALSE, StrVal("k7"), <<>>)}
       [] OTHER -> {Returns(FALSE, NoneVal, <<>>)})
    \cup {Raises(k, m) : k \in DomainErrors, m \in ErrorTexts}
    \cup (IF op = "shoot_account"
          THEN {Raises("ValueCommandException", "Victim cannot be shot")}
          ELSE {})

----------------------------------------------------------------------------
(* UI utilities                                                            *)

\* _mixed, for a fraction in lowest terms with a positive denominator
_mixed(f) ==
    IF f.n % f.d = 0 THEN ToString(f.n \div f.d)
    ELSE IF f.n <= f.d THEN StrOf(f)
    ELSE ToString(f.n \div f.d) \o " " \o ToString(f.n % f.d) \o "/" \o ToString(f.d)

\* round(float(f), 2) in hundredths, for a non-negative f whose hundredths are exact
Hundredths(f) == (100 * f.n) \div f.d

\* _rounded: str() of that float
_rounded(f) ==
    LET c == Hundredths(f)
    IN  ToString(c \div 100) \o "." \o
        (IF c % 10 = 0 THEN ToString((c % 100) \div 10)
         ELSE ToString((c % 100) \div 10) \o ToString(c % 10))

\* len() of the texts the listings pad
StrLen(s) ==
    CASE s \in {"1", "2", "3", "4", "5", "6", "7", "8", "9"} -> 1
      [] s \in {"bob", "5.0"} -> 3
      [] s \in {"42.5"} -> 4
      [] s \in {"carol", "admin"} -> 5
      [] s \in {"citizen"} -> 7
      [] s \in {"alice:al"} -> 8

RECURSIVE Spaces(_)
Spaces(n) == IF n <= 0 THEN "" ELSE " " \o Spaces(n - 1)

\* f"{s:<w}" and f"{s:>w}"
ljust(s, w) == s \o Spaces(w - StrLen(s))
rjust(s, w) == Spaces(w - StrLen(s)) \o s

\* Authorization.name.lower() of the members the listings show
AuthLower(a) == CASE a = "CITIZEN" -> "citizen" [] a = "ADMIN" -> "admin" [] OTHER -> a

----------------------------------------------------------------------------
(* Handlers.  Every handler but _help makes one call into `commands`;      *)
(* Request is that call, Respond is what the handler does with the answer. *)

\* number of parameters each handler declares between `author` and `rest`
HandlerArity(func) ==
    CASE func \in {"_name", "_open_account", "_set_public", "_balance", "_full_balance",
                   "_money_supply", "_list_accounts", "_force_tax", "_toggle_auto_tax",
                   "_buy_gun", "_buy_vest", "_gun_balance", "_vest_balance",
                   "_farm_balance", "_help"} -> 0
      [] func \in {"_leader_board", "_adm_open_account", "_freeze_account",
                   "_unfreeze_account", "_add_public_key", "_request_alias",
                   "_delete_account", "_remove_tax_bracket", "_force_ticks",
                   "_shoot_account", "_set_gun_price", "_set_vest_price",
                   "_buy_farm"} -> 1
      [] func \in {"_transfer", "_print_money", "_remove_funds", "_proxy", "_add_alias",
                   "_admin_add_proxy", "_admin_remove_proxy", "_set_farm_type_cost",
                   "_set_farm_type_duration", "_set_farm_type_returns",
                   "_authorize"} -> 2
      [] func \in {"_adm_transfer", "_create_recurring_transfer", "_proxy_dsa"} -> 3
      [] func \in {"_add_tax_bracket", "_admin_create_recurring_transfer"} -> 4

RECURSIVE SplitLinesAcc(_, _, _)
SplitLinesAcc(s, cur, acc) ==
    IF s = <<>> THEN (IF cur = <<>> THEN acc ELSE Append(acc, cur))
    ELSE IF Head(s) = "\n" THEN SplitLinesAcc(Tail(s), <<>>, Append(acc, cur))
    ELSE SplitLinesAcc(Tail(s), Append(cur, Head(s)), acc)

\* str.splitlines()
splitlines(s) == SplitLinesAcc(s, <<>>, <<>>)

\* line.isspace(), for a non-empty line
isspace(line) == \A i \in DOMAIN line : line[i] \in WS

\* the pem text _add_public_key hands to the service
Pem(key, rest) ==
    LET kept == SelectSeq(splitlines(<<key, " ">> \o rest),
                          LAMBDA line : line # <<>> /\ ~isspace(line))
    IN  JoinStr("\n", [i \in DOMAIN kept |-> Flat(kept[i])])

\* a nested line that carries one token more than command + ' ' + rest
NestedLinePadded(command, rest) == <<command, " ", "5", " ">> \o rest

\* command + ' ' + rest
NestedLine(command, rest) == <<command, " ">> \o rest

Call(op, args, text) == [exc |-> "", msg |-> "", op |-> op, args |-> args, text |-> text]
RaisesBeforeCall(exc, msg) == [exc |-> exc, msg |-> msg, op |-> "", args |-> <<>>, text |-> ""]

\* account = author, or parse_account_id(rest.split()[0]) when rest != ""
RestAccount(a, rest) ==
    IF rest = <<>> THEN Accepted(a) ELSE parse_account_id(split(rest)[1])

BalanceCall(op, a, rest) ==
    IF RestAccount(a, rest).exc # ""
    THEN RaisesBeforeCall(RestAccount(a, rest).exc, RestAccount(a, rest).msg)
    ELSE Call(op, <<a, RestAccount(a, rest).val>>, "")

\* the call into `commands` that handler `func` makes, a: author, x: typed arguments
Request(func, a, x, rest) ==
    CASE func = "_name" -> Call("name", <<a>>, "")
      [] func = "_transfer" -> Call("transfer", <<a, a, x[2], x[1]>>, "")
      [] func = "_adm_transfer" -> Call("transfer", <<a, x[2], x[3], x[1]>>, "")
      [] func = "_open_account" -> Call("open_account", <<a, a>>, "")
      [] func = "_set_public" -> Call("toggle_public", <<a, a>>, "")
      [] func = "_leader_board" -> Call("list_public_accounts", <<a>>, "")
      [] func = "_adm_open_account" -> Call("open_account", <<a, x[1]>>, "")
      [] func = "_freeze_account" -> Call("freeze_account", <<a, x[1]>>, "")
      [] func = "_unfreeze_account" -> Call("unfreeze_account", <<a, x[1]>>, "")
      [] func = "_balance" -> Call("balance", <<a, a>>, "")
      [] func = "_full_balance" -> Call("balance", <<a, a>>, "")
      [] func = "_money_supply" -> Call("get_money_supply", <<a>>, "")
      [] func = "_add_public_key" -> Call("add_public_key", <<a, a>>, Pem(x[1].s, rest))
      [] func = "_list_accounts" -> Call("list_accounts", <<a>>, "")
      [] func = "_print_money" -> Call("print_money", <<a, x[2], x[1]>>, "")
      [] func = "_remove_funds" -> Call("remove_funds", <<a, x[2], x[1]>>, "")
      [] func = "_create_recurring_transfer" ->
            Call("create_recurring_transfer", <<a, a, x[2], x[1], x[3]>>, "")
      [] func = "_admin_create_recurring_transfer" ->
            Call("create_recurring_transfer", <<a, x[2], x[3], x[1], x[4]>>, "")
      [] func = "_proxy" ->
            Call("verify_proxy", <<a, x[1], NoneVal>>, Flat(NestedLine(x[2].s, rest)))
      [] func = "_proxy_dsa" ->
            Call("verify_proxy", <<a, x[1], x[2]>>, Flat(NestedLine(x[3].s, rest)))
      [] func = "_request_alias" -> Call("request_alias", <<a, x[1]>>, "")
      [] func = "_add_alias" -> Call("add_alias", <<a, x[1], x[2]>>, "")
      [] func = "_admin_add_proxy" -> Call("add_proxy", <<a, x[2], x[1]>>, "")
      [] func = "_admin_remove_proxy" -> Call("remove_proxy", <<a, x[2], x[1]>>, "")
      [] func = "_delete_account" -> Call("delete_account", <<a, x[1]>>, "")
      [] func = "_add_tax_bracket" ->
            \* def _add_tax_bracket(author, start, rate, end, name, rest, server)
            LET start == x[1]  rate == x[2]  end == x[3]  name == x[4]
            IN  Call("add_tax_bracket",
                     <<a, start, IF end.n >= 0 THEN end ELSE NoneVal, rate, name>>, "")
      [] func = "_remove_tax_bracket" -> Call("remove_tax_bracket", <<a, x[1]>>, "")
      [] func = "_force_tax" -> Call("force_tax", <<a>>, "")
      [] func = "_toggle_auto_tax" -> Call("auto_tax", <<a>>, "")
      [] func = "_force_ticks" -> Call("force_ticks", <<a, x[1]>>, "")
      [] func = "_shoot_account" -> Call("shoot_account", <<a, a, x[1]>>, "")
      [] func = "_set_gun_price" -> Call("set_gun_price", <<a, x[1]>>, "")
      [] func = "_set_vest_price" -> Call("set_vest_price", <<a, x[1]>>, "")
      [] func = "_buy_gun" -> Call("buy_gun", <<a>>, "")
      [] func = "_buy_vest" -> Call("buy_vest", <<a>>, "")
      [] func = "_gun_balance" -> BalanceCall("gun_balance", a, rest)
      [] func = "_vest_balance" -> BalanceCall("vest_balance", a, rest)
      [] func = "_buy_farm" -> Call("buy_farm", <<a, x[1]>>, "")
      [] func = "_set_farm_type_cost" -> Call("set_farm_cost", <<a, x[1], x[2]>>, "")
      [] func = "_set_farm_type_duration" -> Call("set_farm_duration", <<a, x[1], x[2]>>, "")
      [] func = "_set_farm_type_returns" ->
            Call("set_farm_type_returns", <<a, x[1], x[2]>>, "")
      [] func = "_farm_balance" -> BalanceCall("get_farm_balance", a, rest)
      [] func = "_authorize" -> Call("authorize", <<a, x[1], x[2]>>, "")

\* what a handler hands back: a text, a dict (text and to_be_muted), or an exception
Text(reply) == [exc |-> "", msg |-> "", reply |-> reply, dict |-> FALSE, muted |-> ""]
Dict(response, muted) ==
    [exc |-> "", msg |-> "", reply |-> response, dict |-> TRUE, muted |-> muted]
Raise(exc, msg) == [exc |-> exc, msg |-> msg, reply |-> "", dict |-> FALSE, muted |-> ""]

\* a is before b in sorted(..., key=get_balance, reverse=True) only if its balance is larger
Richer(a, b) == a.n * b.d > b.n * a.d

RECURSIVE InsertByBalance(_, _)
InsertByBalance(sorted, acc) ==
    IF sorted = <<>> THEN <<acc>>
    ELSE IF Richer(acc, Head(sorted)) THEN <<acc>> \o sorted
    ELSE <<Head(sorted)>> \o InsertByBalance(Tail(sorted), acc)

RECURSIVE SortedByBalance(_)
\* sorted(accounts, key=lambda x: x.get_balance(), reverse=True): stable
SortedByBalance(accounts) ==
    IF accounts = <<>> THEN <<>>
    ELSE InsertByBalance(SortedByBalance(SubSeq(accounts, 1, Len(accounts) - 1)),
                         accounts[Len(accounts)])

AccountColumns(acc) ==
    ljust(JoinStr(":", acc.ids), 28)
        \o " | " \o ljust(AuthLower(acc.auth), 9)
        \o " | " \o rjust(_rounded(acc), 8)

\* the rows of _leader_board, had it kept the accounts with i <= limit
LeaderBoardRowsInclusive(accounts, limit) ==
    LET sorted == SortedByBalance(accounts)
        shown == IF limit.ty = "NoneType" THEN Len(sorted)
                 ELSE Min(limit.n + 1, Len(sorted))
    IN  [i \in 1..shown |-> ljust(ToString(i), 3) \o " | " \o AccountColumns(sorted[i])]

\* the rows of _leader_board
LeaderBoardRows(accounts, limit) ==
    LET sorted == SortedByBalance(accounts)
        shown == IF limit.ty = "NoneType" THEN Len(sorted) ELSE Min(limit.n, Len(sorted))
    IN  [i \in 1..shown |-> ljust(ToString(i), 3) \o " | " \o AccountColumns(sorted[i])]

\* what handler `func` does once the service has answered its call
\* (a backquote of the source is written ' and its dash -)
Respond(func, a, x, rest, req, ans) ==
    IF ans.kind # "return"
    THEN CASE func = "_open_account" /\ ans.kind = "ValueCommandException" ->
                Text("Looks like you already have an account. "
                     \o "No need to open another one")
           [] func = "_adm_open_account" /\ ans.kind = "ValueCommandException" ->
                Text("Looks like they already have an account\nNo need to open a new one")
           [] func = "_print_money" /\ ans.kind = "ValueCommandException" ->
                Text("Invalid arguement: Cannot print negative amounts")
           [] func = "_remove_funds" /\ ans.kind = "ValueCommandException" ->
                Text("Invalid argument: Cannot remove negative amounts")
           [] func = "_shoot_account" /\ ans.msg = "Victim cannot be shot" ->
                Text("You tried to shoot " \o StrOf(x[1]) \o " but they dodged")
           [] OTHER -> Raise(ans.kind, ans.msg)
    ELSE
    CASE func = "_name" ->
            Text("Your ID for the purpose of accounting is " \o StrOf(ans.val))
      [] func = "_transfer" ->
            Text("Transferred " \o StrOf(x[1]) \o " to " \o StrOf(x[2]))
      [] func = "_adm_transfer" ->
            Text("Transferred " \o StrOf(x[1]) \o " from " \o StrOf(x[2])
                 \o " to " \o StrOf(x[3]))
      [] func = "_open_account" -> Text("Account opened succesfully")
      [] func = "_set_public" ->
            Text("Account marked as " \o (IF ans.flag THEN "public" ELSE "private"))
      [] func = "_leader_board" ->
            Text(JoinStr("\n", LeaderBoardRows(ans.accounts, x[1])))
      [] func = "_adm_open_account" -> Text("Account opened successfully")
      [] func = "_freeze_account" -> Text("Account frozen")
      [] func = "_unfreeze_account" -> Text("Account unfrozen")
      [] func = "_balance" -> Text("Your balance is " \o _rounded(ans.val))
      [] func = "_full_balance" -> Text("Your un-rounded balance is " \o _mixed(ans.val))
      [] func = "_money_supply" -> Text("The total money supply is " \o _mixed(ans.val))
      [] func = "_add_public_key" -> Text("Public key added successfully")
      [] func = "_list_accounts" ->
            Text(JoinStr("\n", [i \in DOMAIN ans.accounts |->
                                  " " \o AccountColumns(ans.accounts[i])]))
      [] func = "_print_money" ->
            Text("Printed " \o _mixed(x[1]) \o " to " \o StrOf(x[2]))
      [] func = "_remove_funds" ->
            Text("Deleted " \o _mixed(x[1]) \o " from " \o StrOf(x[2]))
      [] func = "_create_recurring_transfer" ->
            Text("Set up recurring transfer of " \o _mixed(x[1])
                 \o " to " \o StrOf(x[2]) \o " every " \o StrOf(x[3]) \o " ticks"
                 \o " (Transfer " \o StrOf(ans.val) \o ").")
      [] func = "_admin_create_recurring_transfer" ->
            Text("Set up recurring transfer of " \o _mixed(x[1])
                 \o " from " \o StrOf(x[2])
                 \o " to " \o StrOf(x[3]) \o " every " \o StrOf(x[4]) \o " ticks"
                 \o " (Transfer " \o StrOf(ans.val) \o ").")
      [] func = "_request_alias" -> Text("Alias request code: '" \o StrOf(ans.val) \o "'")
      [] func = "_add_alias" ->
            Text(StrOf(a) \o " and " \o StrOf(x[1]) \o "now refer to the same account")
      [] func = "_admin_add_proxy" -> Text("Account proxied")
      [] func = "_admin_remove_proxy" -> Text("Account unproxied")
      [] func = "_delete_account" -> Text("Account deleted.")
      [] func = "_add_tax_bracket" ->
            \* name, start, end (None when negative), rate: the handler's own names
            Text("Tax bracket " \o StrOf(x[4]) \o ": [" \o StrOf(x[1]) \o "-"
                 \o StrOf(req.args[3]) \o "] " \o StrOf(x[2]) \o " added")
      [] func = "_remove_tax_bracket" -> Text("Removed tax bracket")
      [] func = "_force_tax" -> Text("Applied tax")
      [] func = "_toggle_auto_tax" ->
            Text("Automatic taxation " \o (IF ans.flag THEN "on" ELSE "off"))
      [] func = "_force_ticks" -> Text("Forced " \o StrOf(x[1]) \o " ticks")
      [] func = "_shoot_account" ->
            IF ans.flag
            THEN Dict("Successfully shot " \o StrOf(x[1]), StrOf(x[1]))
            ELSE Text("You tried to shoot " \o StrOf(x[1])
                      \o " but they had a bullet-proof vest that protected them.\n"
                      \o "Because of your shot, their vest has been damaged and they "
                      \o "are now vulnerable.")
      [] func = "_set_gun_price" -> Text("Set price to " \o StrOf(x[1]))
      [] func = "_set_vest_price" -> Text("Set price to " \o StrOf(x[1]))
      [] func = "_buy_gun" -> Text("You bought a gun")
      [] func = "_buy_vest" -> Text("You bought a vest")
      [] func = "_gun_balance" ->
            IF req.args[2] = a
            THEN Text("your gun-balance is " \o StrOf(ans.val))
            ELSE Text(StrOf(req.args[2]) \o " 's gun-balance is " \o StrOf(ans.val))
      [] func = "_vest_balance" ->
            IF ans.flag
            THEN Text(StrOf(req.args[2]) \o " has a vest")
            ELSE Text(StrOf(req.args[2]) \o " does not have a vest")
      [] func = "_buy_farm" -> Text("Successfully bought " \o StrOf(x[1]))
      [] func = "_set_farm_type_cost" ->
            Text(StrOf(x[1]) \o " now costs " \o StrOf(x[2]))
      [] func = "_set_farm_type_duration" ->
            Text(StrOf(x[1]) \o " now lasts for " \o StrOf(x[2]) \o " days")
      [] func = "_set_farm_type_returns" ->
            Text(StrOf(x[1]) \o " now returns " \o StrOf(x[2]) \o "/day")
      [] func = "_farm_balance" ->
            IF Len(ans.accounts) > 0
            THEN Text(JoinStr("Your inventory contains ",
                              [i \in DOMAIN ans.accounts |->
                                  JoinStr(":", ans.accounts[i].ids) \o ", "]))
            ELSE Text("Your inventory is empty")
      [] func = "_authorize" -> Text("Authorized")

----------------------------------------------------------------------------
(* _parse_command_args and run_command                                     *)

Parsed(args, rest) == [exc |-> "", msg |-> "", args |-> args, rest |-> rest]
ParseRaises(exc, msg) == [exc |-> exc, msg |-> msg, args |-> <<>>, rest |-> <<>>]

\* _parse_command_args: map() pairs the parameters with the tokens there are and
\* list() coerces them in order; only then is the count compared
_parse_command_args(cmd, msg) ==
    LET words == split(msg)
        n == Min(Len(cmd.args), Len(words) - 1)
        coerced == [i \in 1..n |-> Coerce(cmd.args[i].type, words[i + 1])]
        bad == {i \in 1..n : coerced[i].exc # ""}
        first == CHOOSE i \in bad : \A j \in bad : i <= j
    IN  IF cmd.name # words[1]
        THEN ParseRaises("ValueError", "Command line does not match command")
        ELSE IF bad # {} THEN ParseRaises(coerced[first].exc, coerced[first].msg)
        ELSE IF n < Len(cmd.args) THEN ParseRaises("ValueError", "Not enough arguments")
        ELSE Parsed([i \in 1..n |-> coerced[i].val],
                    join(<<" ">>, SubSeqFrom(words, 2 + Len(cmd.args))))

\* what is recorded of one run: entries into run_command, handler invocations and
\* answered calls into `commands`, in the order they happen
Event(ev, who, name, args, pieces, text, ans) ==
    [ev |-> ev, who |-> who, name |-> name, args |-> args, line |-> pieces,
     text |-> text, ans |-> ans]

\* run_command is entered with `pieces` as its message
Entered(who, pieces) == Event("run_command", who, "", <<>>, pieces, "", "")
\* handler `func` of the command called `name` is invoked with args and rest
Invoked(who, func, name, args, rest) == Event("invoke", who, func, args, rest, name, "")
\* the call req into `commands` has been answered
Answered(who, req, ans) ==
    Event("service", who, req.op, req.args, <<>>, req.text,
          IF ans.kind = "return" THEN (IF ans.flag THEN "True" ELSE "False") ELSE ans.kind)

NoCall == Call("", <<>>, "")

\* where a run_command call stands
Run(status, out, call, events, used) ==
    [status |-> status, reply |-> out.reply, dict |-> out.dict, muted |-> out.muted,
     exc |-> out.exc, msg |-> out.msg, call |-> call, events |-> events, used |-> used]

Idle == Run("idle", Text(""), NoCall, <<>>, 0)
Returned(out, events, used) == Run("returned", out, NoCall, events, used)
Raised(exc, msg, events, used) == Run("raised", Raise(exc, msg), NoCall, events, used)
Pending(call, events, used) == Run("pending", Text(""), call, events, used)

\* `command` is not bound when the lookup itself raises
NoCommand == _Command("", <<>>, "", "")

\* the except clauses, with the text of an UnauthorizedCommandException shown
ExceptShowsUnauthorized(exc, msg, command, line, events, used) ==
    CASE exc = "ValueError" ->
            Returned(Text(JoinStr("\n", <<"Error: " \o msg, usage(command)>>)),
                     events, used)
      [] exc = "ValueCommandException" ->
            Returned(Text(JoinStr("\n", <<"Invalid argument: " \o msg, "",
                                          usage(command)>>)),
                     events, used)
      [] exc = "AccountCommandException" ->
            Returned(Text("Invalid account: " \o msg), events, used)
      [] exc = "UnauthorizedCommandException" ->
            Returned(Text("Unauthorized command: " \o msg), events, used)
      [] exc = "ProcessCommandException" ->
            Returned(Text("Something went wrong. Please try again later"), events, used)
      [] exc = "KeyError" ->
            Returned(Text("No such command: " \o split(line)[1]), events, used)
      [] OTHER -> Raised(exc, msg, events, used)

\* the except clauses of run_command, for an exception raised under `command`
Except(exc, msg, command, line, events, used) ==
    CASE exc = "ValueError" ->
            Returned(Text(JoinStr("\n", <<"Error: " \o msg, usage(command)>>)),
                     events, used)
      [] exc = "ValueCommandException" ->
            Returned(Text(JoinStr("\n", <<"Invalid argument: " \o msg, "",
                                          usage(command)>>)),
                     events, used)
      [] exc = "AccountCommandException" ->
            Returned(Text("Invalid account: " \o msg), events, used)
      [] exc = "UnauthorizedCommandException" ->
            Returned(Text("Unauthorized command"), events, used)
      [] exc = "ProcessCommandException" ->
            Returned(Text("Something went wrong. Please try again later"), events, used)
      [] exc = "KeyError" ->
            Returned(Text("No such command: " \o split(line)[1]), events, used)
      [] OTHER -> Raised(exc, msg, events, used)

\* _help answering an unknown name with its own usage as well
HelpUnknownWithUsage(rest) ==
    LET rest_split == split(rest)
    IN  IF rest_split # <<>> /\ rest_split[1] \notin Keys(_commands)
        THEN JoinStr("\n", <<"No such command: " \o rest_split[1],
                              usage(heap[Get(_commands, "help")])>>)
        ELSE ""

\* _help
_help(rest) ==
    LET rest_split == split(rest)
    IN  IF rest_split # <<>>
        THEN IF rest_split[1] \in Keys(_commands)
             THEN usage(heap[Get(_commands, rest_split[1])])
             ELSE "No such command: " \o rest_split[1]
        ELSE JoinStr("\n",
                 << "List of commands:",
                    JoinStr("\n", [i \in DOMAIN _commands |->
                                     "    " \o heap[_commands[i].obj].name \o " -- "
                                     \o heap[_commands[i].obj].description]) >>)

RECURSIVE run_command(_, _, _, _, _)

\* _proxy running the nested line whatever verify_proxy returned
ProxyUnverified(a, account, command, rest, verified, tp, pos, events) ==
    run_command(account, NestedLine(command, rest), tp, pos, events)

\* _proxy, once verify_proxy has returned `verified`
_proxy(a, account, command, rest, verified, tp, pos, events) ==
    IF verified
    THEN run_command(account, NestedLine(command, rest), tp, pos, events)
    ELSE Returned(Text("Unauthorized proxy"), events, pos - 1)

\* _proxy_dsa handing back the text of a dict result only
ProxyDsaAsText(a, account, signature, command, rest, verified, tp, pos, events) ==
    IF verified
    THEN [run_command(account, NestedLine(command, rest), tp, pos, events)
             EXCEPT !.dict = FALSE, !.muted = ""]
    ELSE Returned(Text("Unauthorized proxy"), events, pos - 1)

\* _proxy_dsa, once verify_proxy has returned `verified`
_proxy_dsa(a, account, signature, command, rest, verified, tp, pos, events) ==
    IF verified
    THEN run_command(account, NestedLine(command, rest), tp, pos, events)
    ELSE Returned(Text("Unauthorized proxy"), events, pos - 1)

\* command.func(author, *args, rest, server), with the answers of tape tp from pos on
Invoke(command, a, x, rest, line, tp, pos, events) ==
    LET func == command.func
        req == Request(func, a, x, rest)
        ev1 == Append(events, Invoked(a, func, command.name, x, rest))
        ans == tp[pos]
        ev2 == Append(ev1, Answered(a, req, ans))
        out == Respond(func, a, x, rest, req, ans)
    IN  IF Len(x) # HandlerArity(func)
        THEN Except("TypeError", func \o "() positional arguments", command, line,
                    events, pos - 1)
        ELSE IF func = "_help" THEN Returned(Text(_help(rest)), ev1, pos - 1)
        ELSE IF req.exc # "" THEN Except(req.exc, req.msg, command, line, ev1, pos - 1)
        ELSE IF pos > Len(tp) THEN Pending(req, ev1, pos - 1)
        ELSE IF func \in {"_proxy", "_proxy_dsa"} /\ ans.kind = "return"
        THEN IF func = "_proxy"
             THEN _proxy(a, x[1], x[2].s, rest, ans.flag, tp, pos + 1, ev2)
             ELSE _proxy_dsa(a, x[1], x[2].s, x[3].s, rest, ans.flag, tp, pos + 1, ev2)
        ELSE IF out.exc # "" THEN Except(out.exc, out.msg, command, line, ev2, pos)
        ELSE Returned(out, ev2, pos)

\* run_command(author, message, server)
run_command(a, line, tp, pos, events) ==
    LET words == split(line)
        ev0 == Append(events, Entered(a, line))
        command == heap[Get(_commands, words[1])]
        parsed == _parse_command_args(command, line)
    IN  IF words = <<>>
        THEN Raised("IndexError", "list index out of range", ev0, pos - 1)
        ELSE IF words[1] \notin Keys(_commands)
        THEN Except("KeyError", "'" \o words[1] \o "'", NoCommand, line, ev0, pos - 1)
        ELSE IF parsed.exc # ""
        THEN Except(parsed.exc, parsed.msg, command, line, ev0, pos - 1)
        ELSE Invoke(command, a, parsed.args, parsed.rest, line, tp, pos, ev0)

----------------------------------------------------------------------------
(* Inputs                                                                  *)

\* longest `rest`, in tokens, of the lines given to run_command
MaxRest == 2

\* deepest nesting of proxy commands in those lines
MaxProxyDepth == 2

ArgTokens == {"5", "-1", "1/0", "Admin", "<@"}
RestTokens == {"5"}
\* argument tokens of the lines that carry a rest
RestArgTokens == {"5", "Admin"}
UnknownNames == {"Balance", "nope"}
Separators == {<<" ">>, <<" ", "\n">>}
BlankLines == {<<>>, <<" ">>, <<"\n", "\t">>}

Names == {SortedKeys[i] : i \in DOMAIN SortedKeys}

Seqs(S, n) == UNION {[1..j -> S] : j \in 0..n}

\* number of parameters the registry declares for a name (0 for a name it lacks)
Declared(name) ==
    IF name \in Keys(_commands) THEN Len(heap[Get(_commands, name)].args) ELSE 0

\* a name with tokens for some or all of its parameters, and a name with a
\* token for each parameter and a rest after them
PlainWords ==
    UNION {
        {<<name>> \o typed : typed \in Seqs(ArgTokens, Declared(name))}
        \cup {<<name>> \o typed \o rest :
                typed \in [1..Declared(name) -> RestArgTokens],
                rest \in Seqs(RestTokens, MaxRest)}
        : name \in Names \cup UnknownNames}

HelpWords == {<<"help", name>> : name \in Names \cup UnknownNames}

ProxyTargets == {"admin", "5"}

ProxyPrefixes ==
    {<<"proxy", t>> : t \in ProxyTargets} \cup {<<"proxy-dsa", t, "sig">> : t \in ProxyTargets}

\* lines run on behalf of another account: any name alone or with one token
NestedWords ==
    {<<name>> \o typed : name \in Names \cup UnknownNames, typed \in Seqs(RestArgTokens, 1)}

\* lines at the end of a chain of proxies
ChainWords ==
    { <<"balance">>, <<"shoot", "5">>, <<"transfer", "Admin">>, <<"nope">>,
      <<"help", "proxy">>, <<"authorize", "5", "5">> }

RECURSIVE Proxied(_, _)
Proxied(words, depth) ==
    IF depth = 0 THEN words
    ELSE {p \o w : p \in ProxyPrefixes, w \in Proxied(words, depth - 1)}

ProxyWords ==
    Proxied(NestedWords, 1) \cup UNION {Proxied(ChainWords, d) : d \in 2..MaxProxyDepth}

\* lines whose handler reads an account out of `rest`
RestAccountWords ==
    {<<name, t>> : name \in {"gun-balance", "vest-bal", "farm-balance"},
                   t \in {"admin", "bob", "<@"}}

\* leader-board lines, with limits below, at and under the number of accounts
LeaderBoardWords ==
    {<<name, n>> : name \in {"leader-board", "lb"}, n \in {"0", "1", "2", "-2"}}

\* lines in which two accounts proxy each other
MutualProxyWords ==
    { <<"proxy", "bob", "proxy", "admin", "balance">>,
      <<"proxy-dsa", "bob", "sig", "proxy", "admin", "balance">> }

Lines ==
    BlankLines
    \cup {join(<<" ">>, w) : w \in MutualProxyWords}
    \cup {join(<<" ">>, w) : w \in LeaderBoardWords}
    \cup {join(sep, w) : sep \in Separators, w \in PlainWords \cup HelpWords}
    \cup {join(<<" ">>, w) : w \in ProxyWords \cup RestAccountWords}

\* what the bot passes to run_command: every line from one account, and the lines
\* that act on accounts from a second one
Inputs ==
    {<<AccountIdVal("admin"), m>> : m \in Lines}
    \cup {<<AccountIdVal("bob"), join(<<" ">>, w)>> :
                w \in ProxyWords \cup RestAccountWords \cup MutualProxyWords}

----------------------------------------------------------------------------
(* Importing the module runs its registration statements and sorts the     *)
(* dict; after that lines are served one at a time.                        *)

\* one registration statement, run on registry reg
Statement(reg, st) ==
    IF st.op = "add"
    THEN _add_command(reg.commands, reg.heap, st.name, st.args, st.func, st.description)
    ELSE _alias(reg.commands, reg.heap, st.name, st.alias)

RECURSIVE RunScript(_, _, _)
\* statements lo..hi of the module run in order on registry reg, the first half
\* before the second; an exception ends the import
RunScript(reg, lo, hi) ==
    IF reg.exc # "" \/ lo > hi THEN reg
    ELSE IF lo = hi THEN Statement(reg, Script[lo])
    ELSE LET mid == (lo + hi) \div 2
             first == RunScript(reg, lo, mid)
         IN  IF first.exc # "" THEN first ELSE RunScript(first, mid + 1, hi)

\* the registry once the module is imported
ModuleLoaded ==
    LET reg == RunScript(Registry(<<>>, <<>>, ""), 1, Len(Script))
    IN  IF reg.exc # "" THEN reg
        ELSE Registry(SortByKey(reg.commands), reg.heap, reg.exc)

Init ==
    /\ _commands = ModuleLoaded.commands
    /\ heap = ModuleLoaded.heap
    /\ calls = Len(Script)
    /\ lastCall = [op |-> Script[Len(Script)].op, name |-> Script[Len(Script)].name,
                   alias |-> Script[Len(Script)].alias]
    /\ loadError = ModuleLoaded.exc
    /\ author = NoneVal
    /\ message = <<>>
    /\ tape = <<>>
    /\ result = Idle

\* run_command entering an unknown first token into the registry (a setdefault lookup)
RunCommandCallRegistering ==
    /\ result.status = "idle"
    /\ \E in \in Inputs :
        /\ author' = in[1]
        /\ message' = in[2]
        /\ tape' = <<>>
        /\ result' = run_command(in[1], in[2], <<>>, 1, <<>>)
        /\ _commands' = IF split(in[2]) # <<>> /\ split(in[2])[1] \notin Keys(_commands)
                        THEN Update(_commands, split(in[2])[1], 1)
                        ELSE _commands
    /\ UNCHANGED <<heap, calls, lastCall, loadError>>

\* the bot calls run_command; it runs up to its first call into `commands`
RunCommandCall ==
    /\ result.status = "idle"
    /\ \E in \in Inputs :
        /\ author' = in[1]
        /\ message' = in[2]
        /\ tape' = <<>>
        /\ result' = run_command(in[1], in[2], <<>>, 1, <<>>)
    /\ UNCHANGED <<_commands, heap, calls, lastCall, loadError>>

\* the service answers the pending call; run_command runs on to its next call or its end
ServiceAnswer ==
    /\ result.status = "pending"
    /\ \E ans \in AnswersFor(result.call.op) :
        /\ tape' = Append(tape, ans)
        /\ result' = run_command(author, message, Append(tape, ans), 1, <<>>)
    /\ UNCHANGED <<_commands, heap, calls, lastCall, loadError, author, message>>

\* run_command has returned or raised; the bot takes the outcome
Deliver ==
    /\ result.status \in {"returned", "raised"}
    /\ author' = NoneVal
    /\ message' = <<>>
    /\ tape' = <<>>
    /\ result' = Idle
    /\ UNCHANGED <<_commands, heap, calls, lastCall, loadError>>

----------------------------------------------------------------------------
(* The registry operations on their own: _add_command and _alias called    *)
(* with any names, starting from the empty dict of line 8.                 *)

\* number of registry calls made
MaxRegistryCalls == 3

RegistryNames == {"balance", "bal", "lb"}

AddCommandCall ==
    /\ calls < MaxRegistryCalls
    /\ \E name \in RegistryNames,
          args \in {<<>>, <<P("limit", "limit", "the maximum number of accounts")>>},
          func \in {"_balance", "_leader_board"},
          description \in {"Print account balance"} :
        LET r == _add_command(_commands, heap, name, args, func, description)
        IN  /\ _commands' = r.commands
            /\ heap' = r.heap
            /\ loadError' = r.exc
            /\ lastCall' = [op |-> "add", name |-> name, alias |-> ""]
    /\ calls' = calls + 1
    /\ UNCHANGED <<author, message, tape, result>>

AliasCall ==
    /\ calls < MaxRegistryCalls
    /\ \E name \in RegistryNames, alias \in RegistryNames :
        LET r == _alias(_commands, heap, name, alias)
        IN  /\ _commands' = r.commands
            /\ heap' = r.heap
            /\ loadError' = r.exc
            /\ lastCall' = [op |-> "alias", name |-> name, alias |-> alias]
    /\ calls' = calls + 1
    /\ UNCHANGED <<author, message, tape, result>>

InitRegistry ==
    /\ _commands = <<>>
    /\ heap = <<>>
    /\ calls = 0
    /\ lastCall = [op |-> "", name |-> "", alias |-> ""]
    /\ loadError = ""
    /\ author = NoneVal
    /\ message = <<>>
    /\ tape = <<>>
    /\ result = Idle

NextRegistry == AddCommandCall \/ AliasCall

SpecRegistry == InitRegistry /\ [][NextRegistry]_vars

----------------------------------------------------------------------------

Next == RunCommandCall \/ ServiceAnswer \/ Deliver

Spec == Init /\ [][Next]_vars
----------------------------------------------------------------------------
(* Properties                                                              *)

Finished == result.status \in {"returned", "raised"}

\* the tokens of the line given to the run_command call in flight
Words == split(message)

\* the registry entry the first token of that line names
TopCommand == heap[Get(_commands, Words[1])]

\* the run has invoked a handler
HandlerInvoked == \E i \in DOMAIN result.events : result.events[i].ev = "invoke"

\* the innermost run_command entered so far (the call itself, or its last proxy re-entry)
LastEntered ==
    CHOOSE i \in DOMAIN result.events :
        /\ result.events[i].ev = "run_command"
        /\ \A j \in DOMAIN result.events : result.events[j].ev = "run_command" => j <= i

InnerWords == split(result.events[LastEntered].line)

\* the declared parameters whose token the parameter's coercion rule rejects,
\* for a line that has a token for every parameter
RejectedParams ==
    {i \in DOMAIN TopCommand.args : Coerce(TopCommand.args[i].type, Words[i + 1]).exc # ""}

\* C1: a line with a token for every declared parameter, one of them rejected by its
\* coercion rule, is answered with "Error: <msg>" and the usage of the command, and
\* no handler runs -- for every coercion rule of the registry.
C1_CoercionErrorReply ==
    (/\ Finished
     /\ Words # <<>>
     /\ Words[1] \in Keys(_commands)
     /\ Len(Words) - 1 >= Len(TopCommand.args)
     /\ RejectedParams # {})
    => /\ result.status = "returned"
       /\ \E i \in RejectedParams :
            result.reply = JoinStr("\n",
                <<"Error: " \o Coerce(TopCommand.args[i].type, Words[i + 1]).msg,
                  usage(TopCommand)>>)
       /\ ~HandlerInvoked

\* C2: a line with fewer argument tokens than its command declares is answered with
\* "Error: Not enough arguments" and the usage, whatever the tokens, and no handler runs.
C2_TooFewArguments ==
    (/\ Finished
     /\ Words # <<>>
     /\ Words[1] \in Keys(_commands)
     /\ Len(Words) - 1 < Len(TopCommand.args))
    => /\ result.status = "returned"
       /\ result.reply = JoinStr("\n", <<"Error: Not enough arguments", usage(TopCommand)>>)
       /\ ~HandlerInvoked

\* C3: a line without tokens is answered with "No such command: " (the empty name);
\* run_command does not raise and no handler runs.
C3_BlankLineUnknown ==
    (Finished /\ Words = <<>>)
    => /\ result.status = "returned"
       /\ result.reply = "No such command: "
       /\ ~HandlerInvoked

\* C4: a name that is no key of the registry is answered with exactly
\* "No such command: <name>": as the first token of a line run_command is given or
\* re-enters with (no handler runs for it), and as the argument of help.
C4_UnknownName ==
    Finished =>
        /\ (InnerWords # <<>> /\ InnerWords[1] \notin Keys(_commands))
            => /\ result.status = "returned"
               /\ ~result.dict
               /\ result.reply = "No such command: " \o InnerWords[1]
               /\ LastEntered = Len(result.events)
        /\ (Len(InnerWords) >= 2 /\ InnerWords[1] = "help"
                /\ InnerWords[2] \notin Keys(_commands))
            => /\ result.status = "returned"
               /\ ~result.dict
               /\ result.reply = "No such command: " \o InnerWords[2]

\* C4 happens: a registered name in another case is unknown
C4_Witness ==
    /\ Finished
    /\ Words = <<"Balance", "5">>
    /\ result.reply = "No such command: Balance"
    /\ "balance" \in Keys(_commands)

\* the last answer the service gave, and the handler invocation it went to
LastAnswer == tape[Len(tape)]

LastInvoked ==
    CHOOSE i \in DOMAIN result.events :
        /\ result.events[i].ev = "invoke"
        /\ \A j \in DOMAIN result.events : result.events[j].ev = "invoke" => j <= i

\* the command of the innermost run_command
InnerCommand == heap[Get(_commands, InnerWords[1])]

\* the handler lets the exception of the last answer out
HandlerRaises ==
    /\ tape # <<>>
    /\ LastAnswer.kind \in DomainErrors
    /\ LET inv == result.events[LastInvoked]
       IN  Respond(inv.name, inv.who, inv.args, inv.line, NoCall, LastAnswer).exc
                = LastAnswer.kind

\* C5: when the handler raises a domain error, the reply is fixed by its kind:
\* "Invalid argument: <msg>" and the usage, "Invalid account: <msg>", exactly
\* "Unauthorized command", exactly "Something went wrong. Please try again later";
\* for the last two the same run with another message text has the same reply.
C5_DomainErrorReplies ==
    (Finished /\ HandlerRaises)
    => /\ result.status = "returned"
       /\ ~result.dict
       /\ result.reply =
            CASE LastAnswer.kind = "ValueCommandException" ->
                    "Invalid argument: " \o LastAnswer.msg \o "\n\n" \o usage(InnerCommand)
              [] LastAnswer.kind = "AccountCommandException" ->
                    "Invalid account: " \o LastAnswer.msg
              [] LastAnswer.kind = "UnauthorizedCommandException" ->
                    "Unauthorized command"
              [] LastAnswer.kind = "ProcessCommandException" ->
                    "Something went wrong. Please try again later"
       /\ LastAnswer.kind \in {"UnauthorizedCommandException", "ProcessCommandException"}
            => \A m \in ErrorTexts :
                 run_command(author, message,
                             [tape EXCEPT ![Len(tape)].msg = m], 1, <<>>).reply
                    = result.reply

\* C5 happens: a handler let an UnauthorizedCommandException out
C5_Witness ==
    /\ Finished
    /\ HandlerRaises
    /\ LastAnswer.kind = "UnauthorizedCommandException"
    /\ result.reply = "Unauthorized command"

RECURSIVE SkipWord(_)
\* s without the word it starts in
SkipWord(s) == IF s = <<>> \/ Head(s) \in WS THEN s ELSE SkipWord(Tail(s))

RECURSIVE DropTokens(_, _)
\* the part of s that starts at its token number n + 1
DropTokens(s, n) ==
    IF s = <<>> THEN <<>>
    ELSE IF Head(s) \in WS THEN DropTokens(Tail(s), n)
    ELSE IF n = 0 THEN s
    ELSE DropTokens(SkipWord(s), n - 1)

RECURSIVE RStrip(_)
RStrip(s) ==
    IF s # <<>> /\ s[Len(s)] \in WS THEN RStrip(SubSeq(s, 1, Len(s) - 1)) ELSE s

\* C6: the rest handed to the handler is the original line after the last declared
\* parameter's token, the whitespace between the remaining tokens kept as it was.
C6_RestVerbatim ==
    (Len(result.events) >= 2 /\ result.events[2].ev = "invoke")
    => result.events[2].line
         = RStrip(DropTokens(message, 1 + Len(result.events[2].args)))

IsProxyInvoke(e) == e.ev = "invoke" /\ e.name \in {"_proxy", "_proxy_dsa"}
IsVerify(e) == e.ev = "service" /\ e.name = "verify_proxy"

\* C7: every invocation of _proxy or _proxy_dsa calls verify_proxy once, for (its
\* author, its target); run_command is re-entered only right after a verify_proxy that
\* returned true, under that target; after one that returned false the reply is exactly
\* "Unauthorized proxy" and nothing more runs -- at every level of a chain.
C7_VerifyBeforeNested ==
    LET ev == result.events
    IN  \A i \in DOMAIN ev :
          /\ IsProxyInvoke(ev[i]) =>
                IF i = Len(ev)
                THEN /\ result.status = "pending"
                     /\ result.call.op = "verify_proxy"
                     /\ result.call.args[1] = ev[i].who
                     /\ result.call.args[2] = ev[i].args[1]
                ELSE /\ IsVerify(ev[i + 1])
                     /\ ev[i + 1].args[1] = ev[i].who
                     /\ ev[i + 1].args[2] = ev[i].args[1]
                     /\ i + 2 <= Len(ev) => ev[i + 2].ev = "run_command"
          /\ IsVerify(ev[i]) => i > 1 /\ IsProxyInvoke(ev[i - 1])
          /\ (ev[i].ev = "run_command" /\ i > 1) =>
                /\ IsVerify(ev[i - 1])
                /\ ev[i - 1].ans = "True"
                /\ ev[i].who = ev[i - 1].args[2]
          /\ (IsVerify(ev[i]) /\ ev[i].ans = "False") =>
                /\ i = Len(ev)
                /\ result.status = "returned"
                /\ result.reply = "Unauthorized proxy"
          /\ (IsVerify(ev[i]) /\ ev[i].ans = "True") =>
                /\ i < Len(ev)
                /\ ev[i + 1].ev = "run_command"

\* C7 happens: a chain of two proxies, the second refused after the first was allowed
C7_Witness ==
    /\ Finished
    /\ result.reply = "Unauthorized proxy"
    /\ \E i, j \in DOMAIN result.events :
        /\ i < j
        /\ IsVerify(result.events[i]) /\ result.events[i].ans = "True"
        /\ IsVerify(result.events[j]) /\ result.events[j].ans = "False"
        /\ result.events[j].args[1] = result.events[i].args[2]

\* the line is a proxy command whose verify_proxy has returned true
ProxyAllowed ==
    /\ Len(result.events) >= 3
    /\ IsProxyInvoke(result.events[2])
    /\ IsVerify(result.events[3])
    /\ result.events[3].ans = "True"

\* run_command(<target>, <nested line>) on its own, with the answers the service gave
\* after verify_proxy
DirectRun ==
    run_command(result.events[2].args[1],
                DropTokens(message, Len(result.events[2].args)),
                Tail(tape), 1, <<>>)

\* C8: once verify_proxy has returned true, `proxy <target> <nested line>` and
\* `proxy-dsa <target> <signature> <nested line>` have the result of
\* run_command(<target>, <nested line>): the same text, the same error reply, the same
\* dict with to_be_muted, the same exception, the same pending call.
C8_ProxyEqualsDirect ==
    ProxyAllowed
    => /\ result.status = DirectRun.status
       /\ result.reply = DirectRun.reply
       /\ result.dict = DirectRun.dict
       /\ result.muted = DirectRun.muted
       /\ result.exc = DirectRun.exc
       /\ result.msg = DirectRun.msg
       /\ result.call = DirectRun.call

\* C8 happens: a shot through proxy-dsa hands back the dict
C8_Witness ==
    /\ Finished
    /\ ProxyAllowed
    /\ Words[1] = "proxy-dsa"
    /\ result.dict
    /\ result.muted = "5"

\* no object is the entry of two keys
NoSharedObject ==
    \A i, j \in DOMAIN _commands : i # j => _commands[i].obj # _commands[j].obj

\* what a step that calls _alias(name, alias) does
AliasEffect ==
    (lastCall'.op = "alias" /\ calls' = calls + 1) =>
        LET name == lastCall'.name
            alias == lastCall'.alias
        IN  IF name \in Keys(_commands)
            THEN /\ loadError' = ""
                 /\ Keys(_commands') = Keys(_commands) \cup {alias}
                 /\ heap'[Get(_commands', alias)].name = alias
                 /\ heap'[Get(_commands', alias)].args = heap[Get(_commands, name)].args
                 /\ heap'[Get(_commands', alias)].func = heap[Get(_commands, name)].func
                 /\ \A k \in Keys(_commands) \ {alias} :
                        heap'[Get(_commands', k)] = heap[Get(_commands, k)]
            ELSE /\ loadError' = "KeyError"
                 /\ _commands' = _commands
                 /\ heap' = heap

\* C9: after _alias(existing, new) the entry under new has the parameters and handler
\* of the entry under existing and the name new; every other entry, the one under
\* existing included, is as it was, and no two entries are one object; _alias of an
\* absent name raises and changes nothing.
C9_AliasCopies == []NoSharedObject /\ [][AliasEffect]_vars

\* C9 happens: an alias next to its original, each with its own name
C9_Witness ==
    /\ lastCall.op = "alias"
    /\ loadError = ""
    /\ lastCall.alias # lastCall.name
    /\ heap[Get(_commands, lastCall.alias)].name = lastCall.alias
    /\ heap[Get(_commands, lastCall.name)].name = lastCall.name

\* C10: once the module is imported, no step of any run_command call (its calls into
\* the service, help, proxy re-entries, calls of several callers one after another)
\* changes the registry: the same keys, each with the same entry.
C10_RegistryReadOnly ==
    [][/\ _commands' = _commands
       /\ heap' = heap
       /\ Keys(_commands') = Names]_vars

\* C10 happens: a second caller's proxied line has been served, the registry is as loaded
C10_Witness ==
    /\ Finished
    /\ author = AccountIdVal("bob")
    /\ Len(tape) = 2
    /\ Keys(_commands) = Names
    /\ \A k \in Names : heap[Get(_commands, k)].name = k

----------------------------------------------------------------------------
(* The leader board                                                        *)

\* a leader-board line with an integer limit whose listing call has returned
BoardServed ==
    /\ Finished
    /\ Len(Words) >= 2
    /\ Words[1] \in {"leader-board", "lb"}
    /\ Words[2] \in DOMAIN IntLiteral
    /\ Len(tape) = 1
    /\ tape[1].kind = "return"

\* the place of the k-th returned account on the board: after every account with a
\* larger balance and every account with the same balance returned before it
BoardRank(l, k) ==
    1 + Cardinality({j \in DOMAIN l :
                        \/ l[j].n * l[k].d > l[k].n * l[j].d
                        \/ (l[j].n * l[k].d = l[k].n * l[j].d /\ j < k)})

\* how many rows the limit n leaves of m accounts
BoardShown(n, m) == IF n < 0 THEN m ELSE IF n < m THEN n ELSE m

\* the board the limit n makes of the returned accounts l
BoardRows(l, n) ==
    [i \in 1..BoardShown(n, Len(l)) |->
        ljust(ToString(i), 3) \o " | "
            \o AccountColumns(l[CHOOSE k \in DOMAIN l : BoardRank(l, k) = i])]

\* C11: leader-board <n> and lb <n> reply with one row per public account when n is
\* negative and with at most n rows otherwise; the rows are the accounts by descending
\* balance, accounts of equal balance in the order the service returned them, and are
\* numbered 1, 2, ... in that order.
C11_LeaderBoardLimit ==
    BoardServed =>
        /\ result.status = "returned"
        /\ result.reply = JoinStr("\n", BoardRows(tape[1].accounts, IntLiteral[Words[2]]))

\* C11 happens: a board of three accounts, two of equal balance, is cut to two rows
C11_Witness ==
    /\ BoardServed
    /\ Words = <<"lb", "2">>
    /\ Len(tape[1].accounts) = 3
    /\ \E j, k \in DOMAIN tape[1].accounts :
          j < k /\ tape[1].accounts[j].n * tape[1].accounts[k].d
                     = tape[1].accounts[k].n * tape[1].accounts[j].d
    /\ result.status = "returned"

----------------------------------------------------------------------------
(* Handler invocation                                                      *)

\* the line names a registered command and has, for every declared parameter, a
\* token its coercion rule accepts
ParsesSuccessfully ==
    /\ Words # <<>>
    /\ Words[1] \in Keys(_commands)
    /\ Len(Words) - 1 >= Len(TopCommand.args)
    /\ RejectedParams = {}

\* the handler of the named command has been entered with one value per declared
\* parameter
TopHandlerEntered ==
    \E i \in DOMAIN result.events :
        /\ result.events[i].ev = "invoke"
        /\ result.events[i].name = TopCommand.func
        /\ Len(result.events[i].args) = Len(TopCommand.args)
        /\ \A j \in 1..(i - 1) : result.events[j].ev # "invoke"

\* C12: a line that parses successfully enters the handler of its command with one
\* value per declared parameter, and the call of the handler does not fail on the
\* number of arguments -- for every registered command.
C12_HandlerAcceptsArguments ==
    (Finished /\ ParsesSuccessfully) =>
        /\ TopHandlerEntered
        /\ ~(result.status = "raised" /\ result.exc = "TypeError")

----------------------------------------------------------------------------
(* Proxy nesting                                                           *)

\* the run_command entries of the call in flight, outermost first
Dispatches == SelectSeq(result.events, LAMBDA e : e.ev = "run_command")

\* tokens a proxy command keeps for itself
ProxyOwnTokens(name) == IF name = "proxy" THEN 2 ELSE 3

\* every re-entry comes from a proxy command and gets a line that is shorter by the
\* tokens the proxy command keeps
NestedLinesShrink ==
    \A i \in 1..(Len(Dispatches) - 1) :
        LET outer == split(Dispatches[i].line)
            inner == split(Dispatches[i + 1].line)
        IN  /\ outer # <<>>
            /\ outer[1] \in {"proxy", "proxy-dsa"}
            /\ Len(inner) <= Len(outer) - ProxyOwnTokens(outer[1])

\* C13: every proxy re-entry of run_command is given a line with at least 2 (proxy)
\* or 3 (proxy-dsa) tokens fewer than the line that caused it, so one line of t tokens
\* causes at most t/2 + 1 nested dispatches and as many calls into the service,
\* whoever the proxied accounts are.
C13_ProxyDepthBounded ==
    result.status # "idle" =>
        /\ Dispatches # <<>>
        /\ Dispatches[1].line = message
        /\ NestedLinesShrink
        /\ 2 * Len(Dispatches) <= Len(Words) + 2
        /\ 2 * Len(tape) <= Len(Words) + 2

\* C13 happens: a line in which two accounts proxy each other has been served through
\* three dispatches
C13_Witness ==
    /\ Finished
    /\ author = AccountIdVal("admin")
    /\ Words = <<"proxy", "bob", "proxy", "admin", "balance">>
    /\ Len(Dispatches) = 3
    /\ Dispatches[2].who = AccountIdVal("bob")
    /\ Dispatches[3].who = AccountIdVal("admin")
    /\ result.status = "returned"

----------------------------------------------------------------------------
(* Roles of the typed arguments                                            *)

\* the position at which the named command declares parameter `param`
DeclaredAt(param) ==
    CHOOSE i \in DOMAIN TopCommand.args : TopCommand.args[i].name = param

\* the value of the token in the position declared `param`
TokenValue(param) ==
    Coerce(TopCommand.args[DeclaredAt(param)].type, Words[DeclaredAt(param) + 1]).val

\* C14: for add-tax-bracket start end rate name, the service is given the value of the
\* token declared 'end' as the upper bound of the bracket (no bound when it is
\* negative) and the value of the token declared 'rate' as the tax rate.
C14_TaxBracketRoles ==
    (/\ result.status = "pending"
     /\ Words # <<>>
     /\ Words[1] = "add-tax-bracket"
     /\ result.call.op = "add_tax_bracket")
    => /\ result.call.args[3] = (IF TokenValue("end").n < 0 THEN NoneVal
                                 ELSE TokenValue("end"))
       /\ result.call.args[4] = TokenValue("rate")
=============================================================================
